---- MODULE Spec2Model ----
(***************************************************************************)
(* Model of the NormalDB normalization core:                               *)
(*   FunctionalDependency.js  (FD detection, attribute closure)            *)
(*   CandidateKeyFinder.js    (candidate-key search)                       *)
(*   NormalFormChecker.js     (1NF/2NF/3NF classification)                 *)
(*   SchemaDecomposer.js      (2NF/3NF decomposition)                      *)
(* JavaScript arrays are sequences, JavaScript strings are strings (the    *)
(* operator \o concatenates them), a JavaScript Set is the sequence of its *)
(* members in insertion order.                                             *)
(***************************************************************************)
EXTENDS Naturals, Sequences, FiniteSets, TLC

VARIABLES
  pc,            \* position of the caller in the run
  data,          \* FunctionalDependency.data / the sample rows
  attributes,    \* this.attributes (detector, finder) / schema.attributes
  threshold,     \* FunctionalDependency.threshold as a fraction [num, den]
  fds,           \* the FD list handed from the detector to the other components
  candidateKeys, \* the list returned by findCandidateKeys / handed to checker and decomposer
  finderKeys,    \* the field CandidateKeyFinder.candidateKeys
  closureArgs,   \* the seed of the last computeClosure call made by the caller
  closureOut,    \* what that call returned
  closureAgain,  \* computeClosure applied to what it returned
  closurePasses, \* the passes of the "while (changed)" loop that call made
  reduced,       \* what removeRedundant returned to the caller
  closureReduced, \* computeClosure of the same seed under the list removeRedundant returned
  keysReduced,   \* what findCandidateKeys returned on that list
  testArgs,      \* the lhs and rhs of the last testFD call made by the caller
  lastTest,      \* what that call returned
  outcome,       \* how the last call ended: "returned", or the error it raised
  nfResult,      \* what analyzeAllForms returned
  stage2,        \* what decomposeTo2NF returned: [tables, transformations]
  stage3,        \* what decomposeTo3NF returned: [tables, transformations]
  complete       \* what normalizeComplete returned: its stages

vars == <<pc, data, attributes, threshold, fds, candidateKeys, finderKeys,
          closureArgs, closureOut, closureAgain, closurePasses, reduced,
          closureReduced, keysReduced,
          testArgs, lastTest, outcome, nfResult, stage2, stage3, complete>>

\* The variables of the calls a run has not made yet.
finderVars  == <<candidateKeys, finderKeys>>
closureVars == <<closureArgs, closureOut, closureAgain, closurePasses, reduced,
                 closureReduced, keysReduced>>
testVars    == <<testArgs, lastTest>>
checkerVars == <<nfResult, stage2, stage3, complete>>

NoTest == [holds |-> FALSE, confidence |-> [nan |-> FALSE, num |-> 0, den |-> 1],
           violations |-> 0]
NoStage == [tables |-> <<>>, transformations |-> <<>>]
NoArgs == [lhs |-> <<>>, rhs |-> ""]
NoResult == [nf1 |-> [satisfied |-> FALSE, violations |-> <<>>],
             nf2 |-> [satisfied |-> FALSE, violations |-> <<>>],
             nf3 |-> [satisfied |-> FALSE, violations |-> <<>>],
             currentForm |-> ""]

----------------------------------------------------------------------------
(* Array helpers *)

SeqToSet(s) == {s[i] : i \in 1..Len(s)}

\* Array.prototype.includes
Includes(s, x) == \E i \in 1..Len(s) : s[i] = x

\* lhs.every(attr => s.includes(attr))
EveryIn(lhs, s) == \A i \in 1..Len(lhs) : Includes(s, lhs[i])

\* new Set(arr) / Array.from(set): first occurrences, in insertion order
RECURSIVE SetFrom(_)
SetFrom(arr) ==
  IF arr = <<>> THEN <<>>
  ELSE LET front == SetFrom(SubSeq(arr, 1, Len(arr) - 1))
           last  == arr[Len(arr)]
       IN IF Includes(front, last) THEN front ELSE Append(front, last)

Min(a, b) == IF a <= b THEN a ELSE b

\* The elements of s at the indices in S, in order.
RECURSIVE Restrict(_, _)
Restrict(s, S) ==
  IF s = <<>> THEN <<>>
  ELSE LET front == Restrict(SubSeq(s, 1, Len(s) - 1), S)
       IN IF Len(s) \in S THEN Append(front, s[Len(s)]) ELSE front

----------------------------------------------------------------------------
(* FunctionalDependency.computeClosure *)

\* One "for (const fd of fds)" pass, from the FD at index i on.
RECURSIVE ClosurePass(_, _, _)
ClosurePass(closure, fdList, i) ==
  IF i > Len(fdList) THEN closure
  ELSE LET fd == fdList[i]
       IN IF EveryIn(fd.lhs, closure) /\ ~Includes(closure, fd.rhs)
          THEN ClosurePass(Append(closure, fd.rhs), fdList, i + 1)
          ELSE ClosurePass(closure, fdList, i + 1)

\* A single pass and no more: the loop "while (changed)" replaced by one iteration.
ClosureLoopOnePass(closure, fdList, passes) ==
  [closure |-> ClosurePass(closure, fdList, 1), passes |-> passes + 1]

\* The loop leaving only after a second pass that adds nothing.
RECURSIVE ClosureLoopExtraPass(_, _, _)
ClosureLoopExtraPass(closure, fdList, passes) ==
  LET next == ClosurePass(closure, fdList, 1)
  IN IF next = closure
     THEN [closure |-> closure, passes |-> passes + 2]
     ELSE ClosureLoopExtraPass(next, fdList, passes + 1)

\* The "while (changed)" loop; passes counts the passes made so far.
RECURSIVE ClosureLoop(_, _, _)
ClosureLoop(closure, fdList, passes) ==
  LET next == ClosurePass(closure, fdList, 1)
  IN IF next = closure
     THEN [closure |-> closure, passes |-> passes + 1]
     ELSE ClosureLoop(next, fdList, passes + 1)

computeClosure(attrs, allAttributes, fdList) ==
  ClosureLoop(SetFrom(attrs), fdList, 0).closure

\* The number of times computeClosure runs the body of "while (changed)",
\* the last pass, which adds nothing, included.
closurePassCount(attrs, allAttributes, fdList) ==
  ClosureLoop(SetFrom(attrs), fdList, 0).passes

----------------------------------------------------------------------------
(* CandidateKeyFinder *)

\* The search cap of findCandidateKeys: Math.min(this.attributes.length, 4)
MaxKeySize == 4

isSuperkey(attributeSet, allAttributes, fdList) ==
  Len(computeClosure(attributeSet, allAttributes, fdList)) = Len(allAttributes)

isMinimal(superkey, allAttributes, fdList) ==
  \A i \in 1..Len(superkey) :
    ~isSuperkey(SelectSeq(superkey, LAMBDA a : a # superkey[i]), allAttributes, fdList)

\* mustInclude computed from the rhs of the first FD alone.
findMustIncludeAttributesFirstFD(allAttributes, fdList) ==
  LET rhsAttributes == {fdList[i].rhs : i \in 1..Min(1, Len(fdList))}
  IN SelectSeq(allAttributes, LAMBDA attr : attr \notin rhsAttributes)

findMustIncludeAttributes(allAttributes, fdList) ==
  LET rhsAttributes == {fdList[i].rhs : i \in 1..Len(fdList)}
  IN SelectSeq(allAttributes, LAMBDA attr : attr \notin rhsAttributes)

\* backtrack(start, current): the combinations that extend current with
\* elements of arr at indices >= start, in the order they are pushed.
RECURSIVE backtrack(_, _, _, _)
backtrack(arr, k, start, current) ==
  IF Len(current) = k THEN <<current>>
  ELSE LET RECURSIVE From(_)
           From(i) == IF i > Len(arr) THEN <<>>
                      ELSE backtrack(arr, k, i + 1, Append(current, arr[i])) \o From(i + 1)
       IN From(start)

generateCombinations(arr, k) ==
  IF k = 0 THEN << <<>> >>
  ELSE IF k > Len(arr) THEN <<>>
  ELSE backtrack(arr, k, 1, <<>>)

\* The body of the size loop for one size: the accepted candidate sets.
acceptedAtSize(allAttributes, fdList, mustInclude, otherAttrs, size) ==
  LET combinations == generateCombinations(otherAttrs, size - Len(mustInclude))
      candidateSets == [i \in 1..Len(combinations) |-> mustInclude \o combinations[i]]
  IN SelectSeq(candidateSets,
               LAMBDA c : isSuperkey(c, allAttributes, fdList)
                          /\ isMinimal(c, allAttributes, fdList))

\* The size loop without its "break": the accepted keys of every size.
RECURSIVE searchFromSizeNoBreak(_, _, _, _, _)
searchFromSizeNoBreak(allAttributes, fdList, mustInclude, otherAttrs, size) ==
  IF size > Min(Len(allAttributes), MaxKeySize) THEN <<>>
  ELSE acceptedAtSize(allAttributes, fdList, mustInclude, otherAttrs, size)
       \o searchFromSizeNoBreak(allAttributes, fdList, mustInclude, otherAttrs, size + 1)

\* The size loop, from a given size on: stops at the first size with accepted keys.
RECURSIVE searchFromSize(_, _, _, _, _)
searchFromSize(allAttributes, fdList, mustInclude, otherAttrs, size) ==
  IF size > Min(Len(allAttributes), MaxKeySize) THEN <<>>
  ELSE LET found == acceptedAtSize(allAttributes, fdList, mustInclude, otherAttrs, size)
       IN IF Len(found) > 0 THEN found
          ELSE searchFromSize(allAttributes, fdList, mustInclude, otherAttrs, size + 1)

\* Which return of findCandidateKeys is taken: "shortcut" (mustInclude is a
\* superkey), "search" (the size loop accepted a key) or "fallback".
keyPath(allAttributes, fdList) ==
  LET mustInclude == findMustIncludeAttributes(allAttributes, fdList)
      otherAttrs  == SelectSeq(allAttributes, LAMBDA a : ~Includes(mustInclude, a))
  IN IF isSuperkey(mustInclude, allAttributes, fdList) THEN "shortcut"
     ELSE IF Len(searchFromSize(allAttributes, fdList, mustInclude, otherAttrs,
                                Len(mustInclude) + 1)) > 0
          THEN "search" ELSE "fallback"

\* findCandidateKeys with a fallback that pushes mustInclude, not this.attributes.
findCandidateKeysFallbackMustInclude(allAttributes, fdList) ==
  LET mustInclude == findMustIncludeAttributes(allAttributes, fdList)
      otherAttrs  == SelectSeq(allAttributes, LAMBDA a : ~Includes(mustInclude, a))
  IN IF isSuperkey(mustInclude, allAttributes, fdList) THEN << mustInclude >>
     ELSE LET found == searchFromSize(allAttributes, fdList, mustInclude, otherAttrs,
                                      Len(mustInclude) + 1)
          IN IF Len(found) = 0 THEN << mustInclude >> ELSE found

\* The list findCandidateKeys returns.
findCandidateKeys(allAttributes, fdList) ==
  LET mustInclude == findMustIncludeAttributes(allAttributes, fdList)
      otherAttrs  == SelectSeq(allAttributes, LAMBDA a : ~Includes(mustInclude, a))
  IN IF isSuperkey(mustInclude, allAttributes, fdList) THEN << mustInclude >>
     ELSE LET found == searchFromSize(allAttributes, fdList, mustInclude, otherAttrs,
                                      Len(mustInclude) + 1)
          IN IF Len(found) = 0 THEN << allAttributes >> ELSE found

----------------------------------------------------------------------------
(* The FD candidates of detectAll, in the order it tests them: for each rhs,
   every other single attribute, then every pair [attributes[i], attributes[j]]
   with i < j that does not include rhs. *)

\* The attribute-count guard on pair determinants: this.attributes.length <= 15
PairCap == 15

singleCandidates(attrs, rhs) ==
  LET others == SelectSeq(attrs, LAMBDA lhs : lhs # rhs)
  IN [i \in 1..Len(others) |-> [lhs |-> <<others[i]>>, rhs |-> rhs]]

pairCandidates(attrs, rhs) ==
  IF Len(attrs) <= PairCap
  THEN LET pairs == generateCombinations(attrs, 2)
           usable == SelectSeq(pairs, LAMBDA lhs : ~Includes(lhs, rhs))
       IN [i \in 1..Len(usable) |-> [lhs |-> usable[i], rhs |-> rhs]]
  ELSE <<>>

RECURSIVE candidatesFrom(_, _)
candidatesFrom(attrs, r) ==
  IF r > Len(attrs) THEN <<>>
  ELSE singleCandidates(attrs, attrs[r]) \o pairCandidates(attrs, attrs[r])
       \o candidatesFrom(attrs, r + 1)

detectCandidates(attrs) == candidatesFrom(attrs, 1)

----------------------------------------------------------------------------
(* FunctionalDependency.testFD.  A cell is [type, text]: typeof the value and
   String(value).  The detector's datasets hold strings only, for which
   Set membership is equality of the text. *)

Str(t) == [type |-> "string", text |-> t]

\* How Array.prototype.join renders an element: null and undefined as "".
joinText(cell) == IF cell.type \in {"null", "undefined"} THEN "" ELSE cell.text

\* texts.join(sep)
RECURSIVE joinWith(_, _)
joinWith(texts, sep) ==
  IF Len(texts) = 0 THEN ""
  ELSE IF Len(texts) = 1 THEN texts[1]
  ELSE texts[1] \o sep \o joinWith(Tail(texts), sep)

\* The grouping key made of the attribute names instead of the row's values.
lhsKeyOfNames(row, lhs) == joinWith(lhs, "|")

\* lhs.map(attr => row[attr]).join('|')
lhsKey(row, lhs) == joinWith([i \in 1..Len(lhs) |-> joinText(row[lhs[i]])], "|")

\* groups.get(key): the rhs values of the rows whose lhs key is key
rhsValues(rows, lhs, rhs, key) ==
  {rows[i][rhs] : i \in {j \in 1..Len(rows) : lhsKey(rows[j], lhs) = key}}

\* The loop over groups.values() counting only the groups of more than two
\* rhs values: "rhsValues.size > 2" in the place of "rhsValues.size > 1".
RECURSIVE countViolationsOverTwo(_, _, _, _)
countViolationsOverTwo(rows, lhs, rhs, keys) ==
  IF keys = {} THEN 0
  ELSE LET key  == CHOOSE k \in keys : TRUE
           size == Cardinality(rhsValues(rows, lhs, rhs, key))
       IN (IF size > 2 THEN size - 1 ELSE 0)
          + countViolationsOverTwo(rows, lhs, rhs, keys \ {key})

\* The loop over groups.values(), for the groups with the keys in keys.
RECURSIVE countViolations(_, _, _, _)
countViolations(rows, lhs, rhs, keys) ==
  IF keys = {} THEN 0
  ELSE LET key  == CHOOSE k \in keys : TRUE
           size == Cardinality(rhsValues(rows, lhs, rhs, key))
       IN (IF size > 1 THEN size - 1 ELSE 0)
          + countViolations(rows, lhs, rhs, keys \ {key})

\* 1 - (violations / totalPairs) as the fraction (totalPairs - violations) /
\* totalPairs; with no rows the division is 0 / 0, which is NaN.
confidenceOf(violations, totalPairs) ==
  IF totalPairs = 0 THEN [nan |-> TRUE, num |-> 0, den |-> 0]
  ELSE [nan |-> FALSE, num |-> totalPairs - violations, den |-> totalPairs]

\* confidence >= this.threshold (false for NaN)
atLeast(confidence, thr) ==
  ~confidence.nan /\ confidence.num * thr.den >= thr.num * confidence.den

testFD(rows, lhs, rhs, thr) ==
  LET keys       == {lhsKey(rows[i], lhs) : i \in 1..Len(rows)}
      violations == countViolations(rows, lhs, rhs, keys)
      confidence == confidenceOf(violations, Len(rows))
  IN [holds |-> atLeast(confidence, thr), confidence |-> confidence,
      violations |-> violations]

----------------------------------------------------------------------------
(* FunctionalDependency.removeRedundant and detectAll *)

\* The length test of removeRedundant with "<=" in the place of "<".
removeRedundantOrEqual(fdList) ==
  LET isRedundant(i) ==
        \E j \in 1..Len(fdList) :
          /\ j # i
          /\ fdList[j].rhs = fdList[i].rhs
          /\ EveryIn(fdList[j].lhs, fdList[i].lhs)
          /\ Len(fdList[j].lhs) <= Len(fdList[i].lhs)
  IN Restrict(fdList, {i \in 1..Len(fdList) : ~isRedundant(i)})

\* removeRedundant with the subset test turned round: an FD is dropped when
\* another FD with its rhs has a larger lhs that contains its lhs.
removeRedundantKeepsLarger(fdList) ==
  LET isRedundant(i) ==
        \E j \in 1..Len(fdList) :
          /\ j # i
          /\ fdList[j].rhs = fdList[i].rhs
          /\ EveryIn(fdList[i].lhs, fdList[j].lhs)
          /\ Len(fdList[i].lhs) < Len(fdList[j].lhs)
  IN Restrict(fdList, {i \in 1..Len(fdList) : ~isRedundant(i)})

removeRedundant(fdList) ==
  LET isRedundant(i) ==
        \E j \in 1..Len(fdList) :
          /\ j # i
          /\ fdList[j].rhs = fdList[i].rhs
          /\ EveryIn(fdList[j].lhs, fdList[i].lhs)
          /\ Len(fdList[j].lhs) < Len(fdList[i].lhs)
  IN Restrict(fdList, {i \in 1..Len(fdList) : ~isRedundant(i)})

\* detectAll pushing every FD it tests, without the test "if (result.holds)".
detectAllUnfiltered(rows, attrs, thr) ==
  LET tested == detectCandidates(attrs)
      found  == [i \in 1..Len(tested) |->
                   [lhs |-> tested[i].lhs, rhs |-> tested[i].rhs,
                    confidence |-> testFD(rows, tested[i].lhs, tested[i].rhs,
                                          thr).confidence]]
  IN removeRedundant(found)

detectAll(rows, attrs, thr) ==
  LET tested  == detectCandidates(attrs)
      holding == SelectSeq(tested, LAMBDA c : testFD(rows, c.lhs, c.rhs, thr).holds)
      found   == [i \in 1..Len(holding) |->
                    [lhs |-> holding[i].lhs, rhs |-> holding[i].rhs,
                     confidence |-> testFD(rows, holding[i].lhs, holding[i].rhs,
                                           thr).confidence]]
  IN removeRedundant(found)

----------------------------------------------------------------------------
(* NormalFormChecker *)

\* key.forEach(attr => ...) over every key: the keys' attributes in one array
RECURSIVE Flatten(_)
Flatten(keys) == IF keys = <<>> THEN <<>> ELSE Head(keys) \o Flatten(Tail(keys))

findPrimeAttributes(keys) == SetFrom(Flatten(keys))

\* The column names in the order the rows are written with; Object.keys and
\* Object.entries list a row's columns in this order.
KeyOrder == <<"Student", "Course", "Room", "A", "B", "C", "D", "E", "F">>

ObjectKeys(row) == SelectSeq(KeyOrder, LAMBDA k : k \in DOMAIN row)

\* Array.isArray(value) || (typeof value === 'object' && value !== null)
nonAtomic(cell) == cell.type \in {"array", "object"}

\* The attributes whose cell in the row is not atomic, in Object.entries order.
nonAtomicKeys(row) == SelectSeq(ObjectKeys(row), LAMBDA k : nonAtomic(row[k]))

check1NF(sampleData) ==
  LET bad == {i \in 1..Len(sampleData) : nonAtomicKeys(sampleData[i]) # <<>>}
  IN IF bad = {} THEN [satisfied |-> TRUE, violations |-> <<>>]
     ELSE LET first == CHOOSE i \in bad : \A j \in bad : i <= j
              key   == nonAtomicKeys(sampleData[first])[1]
          IN [satisfied |-> FALSE,
              violations |-> << "Attribute " \o key \o " contains non-atomic value" >>]

\* The partial-dependency test without the test that rhs is non-prime.
checkerIsPartialDependencyAnyRhs(fd, primeAttributes, keys) ==
  \E k \in 1..Len(keys) : EveryIn(fd.lhs, keys[k]) /\ Len(fd.lhs) < Len(keys[k])

checkerIsPartialDependency(fd, primeAttributes, keys) ==
  IF Includes(primeAttributes, fd.rhs) THEN FALSE
  ELSE \E k \in 1..Len(keys) :
         EveryIn(fd.lhs, keys[k]) /\ Len(fd.lhs) < Len(keys[k])

check2NF(fdList, keys) ==
  LET prime == findPrimeAttributes(keys)
      bad   == SelectSeq(fdList, LAMBDA fd : checkerIsPartialDependency(fd, prime, keys))
      violations == [i \in 1..Len(bad) |->
                       [lhs |-> bad[i].lhs, rhs |-> bad[i].rhs,
                        reason |-> bad[i].rhs \o " partially depends on "
                                   \o joinWith(bad[i].lhs, ", ")]]
  IN [satisfied |-> Len(violations) = 0, violations |-> violations]

checkerIsTransitiveDependency(fd, primeAttributes, keys) ==
  LET lhsNonPrime == \A i \in 1..Len(fd.lhs) : ~Includes(primeAttributes, fd.lhs[i])
      rhsNonPrime == ~Includes(primeAttributes, fd.rhs)
      lhsIsKey    == \E k \in 1..Len(keys) :
                       Len(keys[k]) = Len(fd.lhs) /\ EveryIn(keys[k], fd.lhs)
  IN IF ~lhsNonPrime \/ ~rhsNonPrime THEN FALSE ELSE ~lhsIsKey

check3NF(fdList, keys) ==
  LET prime == findPrimeAttributes(keys)
      bad   == SelectSeq(fdList,
                         LAMBDA fd : checkerIsTransitiveDependency(fd, prime, keys))
      violations == [i \in 1..Len(bad) |->
                       [lhs |-> bad[i].lhs, rhs |-> bad[i].rhs,
                        reason |-> bad[i].rhs \o " transitively depends on "
                                   \o joinWith(bad[i].lhs, ", ")]]
  IN [satisfied |-> Len(violations) = 0, violations |-> violations]

\* The form tag with the three tests side by side instead of nested.
currentFormUnnested(r1, r2, r3) ==
  IF r3.satisfied THEN "3NF"
  ELSE IF r2.satisfied THEN "2NF"
  ELSE IF r1.satisfied THEN "1NF"
  ELSE "UNF"

\* The nested ifs of analyzeAllForms that set result.currentForm.
currentFormOf(r1, r2, r3) ==
  IF r1.satisfied
  THEN IF r2.satisfied
       THEN IF r3.satisfied THEN "3NF" ELSE "2NF"
       ELSE "1NF"
  ELSE "UNF"

analyzeAllForms(sampleData, fdList, keys) ==
  LET r1 == check1NF(sampleData)
      r2 == check2NF(fdList, keys)
      r3 == check3NF(fdList, keys)
  IN [nf1 |-> r1, nf2 |-> r2, nf3 |-> r3, currentForm |-> currentFormOf(r1, r2, r3)]

----------------------------------------------------------------------------
(* SchemaDecomposer, stage 2 *)

\* originalSchema.tableName
tableName == "orders"

\* The attribute names in the order Array.prototype.sort puts them (UTF-16).
NameOrder == <<"A", "B", "C", "Course", "D", "E", "F", "Room", "Student">>

nameRank(a) == CHOOSE i \in 1..Len(NameOrder) : NameOrder[i] = a

\* names.sort()
RECURSIVE sortNames(_)
sortNames(names) ==
  IF Len(names) <= 1 THEN names
  ELSE LET front == sortNames(SubSeq(names, 1, Len(names) - 1))
           last  == names[Len(names)]
           before == SelectSeq(front, LAMBDA a : nameRank(a) <= nameRank(last))
           after  == SelectSeq(front, LAMBDA a : nameRank(a) > nameRank(last))
       IN before \o <<last>> \o after

\* The attributes of the first candidate key only.
getPrimeAttributesFirstKey(keys) == IF keys = <<>> THEN <<>> ELSE SetFrom(Head(keys))

getPrimeAttributes(keys) == SetFrom(Flatten(keys))

\* The decomposer's test with "<=" in the place of "<": a determinant that is
\* a whole key counts as partial.
decomposerIsPartialDependencyOrEqual(fd, primeAttributes, keys) ==
  LET rhsNonPrime == ~Includes(primeAttributes, fd.rhs)
  IN IF ~rhsNonPrime THEN FALSE
     ELSE \E k \in 1..Len(keys) :
            EveryIn(fd.lhs, keys[k]) /\ Len(fd.lhs) <= Len(keys[k])

decomposerIsPartialDependency(fd, primeAttributes, keys) ==
  LET rhsNonPrime == ~Includes(primeAttributes, fd.rhs)
  IN IF ~rhsNonPrime THEN FALSE
     ELSE \E k \in 1..Len(keys) :
            EveryIn(fd.lhs, keys[k]) /\ Len(fd.lhs) < Len(keys[k])

partialDepsOf(fdList, keys) ==
  SelectSeq(fdList,
            LAMBDA fd : decomposerIsPartialDependency(fd, getPrimeAttributes(keys), keys))

\* fd.lhs.sort().join('|')
groupKey(fd) == joinWith(sortNames(fd.lhs), "|")

\* The Map "grouped": one [lhs, rhs] per distinct key, in insertion order; lhs
\* is the (sorted) lhs array of the first FD with the key, rhs collects the
\* rhs of every FD with the key.
groupByLhs(deps) ==
  LET keySeq == SetFrom([i \in 1..Len(deps) |-> groupKey(deps[i])])
      members(key) == SelectSeq(deps, LAMBDA fd : groupKey(fd) = key)
  IN [g \in 1..Len(keySeq) |->
        [lhs |-> sortNames(members(keySeq[g])[1].lhs),
         rhs |-> [i \in 1..Len(members(keySeq[g])) |-> members(keySeq[g])[i].rhs]]]

\* The spawned table's attributes without the moved rhs attributes.
spawnedAttributesLhsOnly(group) == group.lhs

\* const attributes = [...group.lhs, ...group.rhs]
spawnedAttributes(group) == group.lhs \o group.rhs

\* Array.from(mainAttributes) after the deletes
mainAttributesOf(schemaAttributes, groups) ==
  LET removed == UNION {SeqToSet(groups[g].rhs) : g \in 1..Len(groups)}
  IN SelectSeq(SetFrom(schemaAttributes), LAMBDA a : a \notin removed)

decomposeTo2NF(schemaAttributes, fdList, keys) ==
  LET partialDeps == partialDepsOf(fdList, keys)
      groups  == groupByLhs(partialDeps)
      spawned == [g \in 1..Len(groups) |->
                    [name |-> tableName \o "_" \o ToString(g),
                     attributes |-> spawnedAttributes(groups[g]),
                     primaryKey |-> groups[g].lhs,
                     foreignKeys |-> <<>>]]
      main    == [name |-> tableName,
                  attributes |-> mainAttributesOf(schemaAttributes, groups),
                  primaryKey |-> keys[1],
                  foreignKeys |-> <<>>]
  IN [tables |-> Append(spawned, main),
      transformations |->
        << [type |-> "2NF", description |-> "Removed partial dependencies",
            changes |-> [i \in 1..Len(partialDeps) |->
                           "Moved " \o partialDeps[i].rhs
                           \o " to separate table (depends on "
                           \o joinWith(sortNames(partialDeps[i].lhs), ", ") \o ")"]] >>]

\* The FD list after decomposeTo2NF: fd.lhs.sort() sorts the lhs array of
\* every partial dependency in place.
fdsAfter2NF(fdList, keys) ==
  [i \in 1..Len(fdList) |->
     IF decomposerIsPartialDependency(fdList[i], getPrimeAttributes(keys), keys)
     THEN [fdList[i] EXCEPT !.lhs = sortNames(@)]
     ELSE fdList[i]]

----------------------------------------------------------------------------
(* SchemaDecomposer, stages 1 and 3, and normalizeComplete *)

decomposeTo1NF(schemaAttributes, keys) ==
  [tables |->
     << [name |-> tableName,
         attributes |-> schemaAttributes,
         primaryKey |-> IF keys # <<>> THEN keys[1] ELSE schemaAttributes,
         foreignKeys |-> <<>>] >>,
   transformations |->
     << [type |-> "1NF",
         description |-> "Ensured all attributes contain atomic values",
         changes |-> <<"Multi-valued attributes flattened into separate rows">>] >>]

\* The decomposer's test without the test that the lhs is non-prime.
decomposerIsTransitiveDependencyAnyLhs(fd, primeAttributes, primaryKey) ==
  LET rhsNonPrime == ~Includes(primeAttributes, fd.rhs)
      lhsNotKey   == ~EveryIn(fd.lhs, primaryKey) \/ Len(fd.lhs) # Len(primaryKey)
  IN rhsNonPrime /\ lhsNotKey

decomposerIsTransitiveDependency(fd, primeAttributes, primaryKey) ==
  LET lhsNonPrime == \A i \in 1..Len(fd.lhs) : ~Includes(primeAttributes, fd.lhs[i])
      rhsNonPrime == ~Includes(primeAttributes, fd.rhs)
      lhsNotKey   == ~EveryIn(fd.lhs, primaryKey) \/ Len(fd.lhs) # Len(primaryKey)
  IN lhsNonPrime /\ rhsNonPrime /\ lhsNotKey

\* this.fds.filter(...): the FDs whose attributes are all in the table
tableFDsOf(table, fdList) ==
  SelectSeq(fdList, LAMBDA fd : /\ EveryIn(fd.lhs, table.attributes)
                                /\ Includes(table.attributes, fd.rhs))

transitiveDepsOf(table, fdList, keys) ==
  SelectSeq(tableFDsOf(table, fdList),
            LAMBDA fd : decomposerIsTransitiveDependency(fd, getPrimeAttributes(keys),
                                                         table.primaryKey))

\* The tables one iteration of "for (const table of tables2NF)" pushes: a
\* detail table per group, then the updated main table.
tables3NFOf(table, fdList, keys) ==
  LET groups  == groupByLhs(transitiveDepsOf(table, fdList, keys))
      details == [g \in 1..Len(groups) |->
                    [name |-> table.name \o "_detail_" \o ToString(g),
                     attributes |-> groups[g].lhs \o groups[g].rhs,
                     primaryKey |-> groups[g].lhs,
                     foreignKeys |-> <<>>]]
      main    == [name |-> table.name,
                  attributes |-> mainAttributesOf(table.attributes, groups),
                  primaryKey |-> table.primaryKey,
                  foreignKeys |-> [g \in 1..Len(groups) |->
                                     [columns |-> groups[g].lhs,
                                      references |-> table.name \o "_detail"]]]
  IN Append(details, main)

\* The transformations that iteration pushes: one per group.
transformations3NFOf(table, fdList, keys) ==
  LET groups == groupByLhs(transitiveDepsOf(table, fdList, keys))
  IN [g \in 1..Len(groups) |->
        [type |-> "3NF",
         description |-> "Removed transitive dependency from " \o table.name,
         changes |-> << "Moved " \o joinWith(groups[g].rhs, ", ") \o " to "
                        \o table.name \o "_detail_" \o ToString(g) >>]]

\* The loop over tables2NF, from the table at index t on.
RECURSIVE decompose3NFFrom(_, _, _, _)
decompose3NFFrom(tables2NF, fdList, keys, t) ==
  IF t > Len(tables2NF) THEN NoStage
  ELSE LET rest == decompose3NFFrom(tables2NF, fdList, keys, t + 1)
       IN [tables |-> tables3NFOf(tables2NF[t], fdList, keys) \o rest.tables,
           transformations |-> transformations3NFOf(tables2NF[t], fdList, keys)
                               \o rest.transformations]

decomposeTo3NF(tables2NF, fdList, keys) == decompose3NFFrom(tables2NF, fdList, keys, 1)

\* The FD list after decomposeTo3NF: fd.lhs.sort() sorts in place the lhs
\* array of every FD that is a transitive dependency of some table.
fdsAfter3NF(tables2NF, fdList, keys) ==
  [i \in 1..Len(fdList) |->
     IF \E t \in 1..Len(tables2NF) :
          Includes(transitiveDepsOf(tables2NF[t], fdList, keys), fdList[i])
     THEN [fdList[i] EXCEPT !.lhs = sortNames(@)]
     ELSE fdList[i]]

\* result.stages of normalizeComplete; stage 3 runs on the FD list as stage 2
\* left it.
normalizeComplete(schemaAttributes, fdList, keys) ==
  LET stage1NF == decomposeTo1NF(schemaAttributes, keys)
      stage2NF == decomposeTo2NF(schemaAttributes, fdList, keys)
      stage3NF == decomposeTo3NF(stage2NF.tables, fdsAfter2NF(fdList, keys), keys)
  IN << [normalForm |-> "1NF", tables |-> stage1NF.tables,
         transformations |-> stage1NF.transformations],
        [normalForm |-> "2NF", tables |-> stage2NF.tables,
         transformations |-> stage2NF.transformations],
        [normalForm |-> "3NF", tables |-> stage3NF.tables,
         transformations |-> stage3NF.transformations] >>

\* The FD list after normalizeComplete: sorted by stage 2, then by stage 3.
fdsAfterComplete(schemaAttributes, fdList, keys) ==
  fdsAfter3NF(decomposeTo2NF(schemaAttributes, fdList, keys).tables,
              fdsAfter2NF(fdList, keys), keys)

----------------------------------------------------------------------------
(* Bounded inputs *)

AttrPool == <<"A", "B", "C", "D", "E", "F">>

\* The longest FD list handed to the key finder.
MaxKeyFDs == 2

\* The position of fd in the candidate sequence cands (0 when it is not there).
candidateIndex(cands, fd) ==
  IF \E i \in 1..Len(cands) : cands[i] = fd
  THEN CHOOSE i \in 1..Len(cands) : cands[i] = fd
  ELSE 0

\* The candidates that may follow the FDs already in fdList: an FD list is a
\* sub-list of the candidate sequence, as detectAll builds it.
laterCandidates(attrs, fdList) ==
  LET cands == detectCandidates(attrs)
      last  == IF fdList = <<>> THEN 0 ELSE candidateIndex(cands, fdList[Len(fdList)])
  IN {cands[i] : i \in last + 1..Len(cands)}

----------------------------------------------------------------------------
(* SpecKeys: the key finder run on an attribute list and an FD list over it *)

InitKeys ==
  /\ pc = "input"
  /\ data = <<>>
  /\ threshold = [num |-> 98, den |-> 100]
  /\ \E n \in 1..Len(AttrPool) : attributes = SubSeq(AttrPool, 1, n)
  /\ fds = <<>>
  /\ candidateKeys = <<>>
  /\ finderKeys = <<>>
  /\ closureArgs = <<>>
  /\ closureOut = <<>>
  /\ closureAgain = <<>>
  /\ closurePasses = 0
  /\ reduced = <<>>
  /\ closureReduced = <<>>
  /\ keysReduced = <<>>
  /\ testArgs = NoArgs
  /\ lastTest = NoTest
  /\ outcome = "none"
  /\ nfResult = NoResult
  /\ stage2 = NoStage
  /\ stage3 = NoStage
  /\ complete = <<>>

\* The caller puts one more FD in the list it will hand to the finder.
KeysPushFD ==
  /\ pc = "input"
  /\ Len(fds) < MaxKeyFDs
  /\ \E fd \in laterCandidates(attributes, fds) : fds' = Append(fds, fd)
  /\ UNCHANGED <<pc, data, attributes, threshold, outcome, finderVars, closureVars,
                 testVars, checkerVars>>

\* new CandidateKeyFinder(attributes, fds).findCandidateKeys()
FindKeys ==
  /\ pc = "input"
  /\ candidateKeys' = findCandidateKeys(attributes, fds)
  /\ finderKeys' = IF keyPath(attributes, fds) = "shortcut" THEN <<>>
                   ELSE findCandidateKeys(attributes, fds)
  /\ pc' = "keys"
  /\ outcome' = "returned"
  /\ UNCHANGED <<data, attributes, threshold, fds, closureVars, testVars, checkerVars>>

NextKeys == KeysPushFD \/ FindKeys

SpecKeys == InitKeys /\ [][NextKeys]_vars

\* superkey without the attribute at index i: superkey.filter(a => a !== attr)
without(key, i) == SelectSeq(key, LAMBDA a : a # key[i])

\* C1 (as stated): every key findCandidateKeys returns, the fallback key
\* included, is a superkey, and no key with one attribute removed is a superkey.
C1_EveryKeyMinimal ==
  pc = "keys" =>
    \A k \in 1..Len(candidateKeys) :
      /\ isSuperkey(candidateKeys[k], attributes, fds)
      /\ \A i \in 1..Len(candidateKeys[k]) :
           ~isSuperkey(without(candidateKeys[k], i), attributes, fds)

\* C1 (amended): every returned key is a superkey; every key returned by the
\* shortcut or by the size loop is minimal; the fallback key need not be.
C1_KeysSuperkeyAndMinimalUnlessFallback ==
  pc = "keys" =>
    \A k \in 1..Len(candidateKeys) :
      /\ isSuperkey(candidateKeys[k], attributes, fds)
      /\ keyPath(attributes, fds) # "fallback" =>
           \A i \in 1..Len(candidateKeys[k]) :
             ~isSuperkey(without(candidateKeys[k], i), attributes, fds)

\* The size loop has accepted two keys of two or more attributes.
C1_Witness ==
  /\ pc = "keys"
  /\ keyPath(attributes, fds) = "search"
  /\ Len(candidateKeys) >= 2
  /\ Len(candidateKeys[1]) >= 2

\* The FD lists of at most one FD over the attributes.
shortLists(attrs) ==
  {<<>>} \cup {<<detectCandidates(attrs)[i]>> : i \in 1..Len(detectCandidates(attrs))}

\* C10: the returned result tells the fallback from a discovered key: no input
\* that discovers a key returns what a fallback run returns. Stated for the
\* run in hand against every FD list of at most one FD over the same attributes.
C10_FallbackDistinguishable ==
  (pc = "keys" /\ keyPath(attributes, fds) = "fallback") =>
    \A other \in shortLists(attributes) :
      keyPath(attributes, other) # "fallback" =>
        findCandidateKeys(attributes, other) # candidateKeys

\* C23: when findCandidateKeys takes the short-circuit path, every superkey
\* contains mustInclude, and the key it returns, mustInclude, is the only
\* minimal superkey of the schema.
C23_ShortcutKeyIsOnlyKey ==
  (pc = "keys" /\ keyPath(attributes, fds) = "shortcut") =>
    LET mustInclude == findMustIncludeAttributes(attributes, fds)
        asList(S)   == SelectSeq(attributes, LAMBDA a : a \in S)
        superkeys   == {S \in SUBSET SeqToSet(attributes) :
                          isSuperkey(asList(S), attributes, fds)}
        minimalKeys == {S \in superkeys :
                          \A T \in superkeys : ~(T \subseteq S /\ T # S)}
    IN /\ candidateKeys = << mustInclude >>
       /\ \A S \in superkeys : SeqToSet(mustInclude) \subseteq S
       /\ minimalKeys = {SeqToSet(mustInclude)}

\* The short-circuit path was taken on FDs that derive two attributes from
\* the others: the key is smaller than the attribute list.
C23_Witness ==
  /\ pc = "keys"
  /\ keyPath(attributes, fds) = "shortcut"
  /\ Len(fds) = 2
  /\ candidateKeys # <<>>
  /\ Len(candidateKeys[1]) + 2 = Len(attributes)

----------------------------------------------------------------------------
(* SpecSearch: the key finder on FD lists of up to three FDs among the first
   three attributes; the attributes after them are in no FD, so they are in
   every key *)

\* The attributes the FDs of SpecSearch are over.
SearchFDAttrs == <<"A", "B", "C">>

\* The longest FD list of SpecSearch.
MaxSearchFDs == 3

\* The FDs that may follow the ones already in fdList: those of
\* laterCandidates whose attributes are all among SearchFDAttrs.
laterSearchCandidates(attrs, fdList) ==
  {fd \in laterCandidates(attrs, fdList) :
     Includes(SearchFDAttrs, fd.rhs) /\ EveryIn(fd.lhs, SearchFDAttrs)}

\* The caller puts one more FD in the list it will hand to the finder.
SearchPushFD ==
  /\ pc = "input"
  /\ Len(fds) < MaxSearchFDs
  /\ \E fd \in laterSearchCandidates(attributes, fds) : fds' = Append(fds, fd)
  /\ UNCHANGED <<pc, data, attributes, threshold, outcome, finderVars, closureVars,
                 testVars, checkerVars>>

NextSearch == SearchPushFD \/ FindKeys

SpecSearch == InitKeys /\ [][NextSearch]_vars

\* The sizes of the size loop at which some superkey that contains mustInclude
\* has no proper subset that is a superkey.
minimalSuperkeySizes(allAttributes, fdList) ==
  LET mustInclude == findMustIncludeAttributes(allAttributes, fdList)
      asList(S) == SelectSeq(allAttributes, LAMBDA a : a \in S)
      superkeys == {S \in SUBSET SeqToSet(allAttributes) :
                      isSuperkey(asList(S), allAttributes, fdList)}
      minimal(S) == \A T \in superkeys : ~(T \subseteq S /\ T # S)
  IN {size \in Len(mustInclude) + 1..Min(Len(allAttributes), MaxKeySize) :
        \E S \in superkeys : /\ Cardinality(S) = size
                              /\ SeqToSet(mustInclude) \subseteq S
                              /\ minimal(S)}

\* C18: when mustInclude is not a superkey, the keys findCandidateKeys reports
\* all have the smallest size of the size loop at which a minimal superkey
\* containing mustInclude exists, and none has a larger size; it falls back to
\* the whole attribute list exactly when there is no such size.
C18_KeysOfFirstSizeOnly ==
  (pc = "keys" /\ keyPath(attributes, fds) # "shortcut") =>
    LET sizes == minimalSuperkeySizes(attributes, fds)
    IN IF sizes = {}
       THEN keyPath(attributes, fds) = "fallback" /\ candidateKeys = <<attributes>>
       ELSE /\ keyPath(attributes, fds) = "search"
            /\ candidateKeys # <<>>
            /\ \A k \in 1..Len(candidateKeys) :
                 /\ Len(candidateKeys[k]) \in sizes
                 /\ \A size \in sizes : Len(candidateKeys[k]) <= size

\* The size loop accepted a key at its first size and stopped, although a
\* minimal superkey of a larger size exists.
C18_Witness ==
  /\ pc = "keys"
  /\ keyPath(attributes, fds) = "search"
  /\ Cardinality(minimalSuperkeySizes(attributes, fds)) = 2
  /\ \A k \in 1..Len(candidateKeys) :
       Len(candidateKeys[k]) = Len(findMustIncludeAttributes(attributes, fds)) + 1

----------------------------------------------------------------------------
(* SpecClosure: computeClosure called on a seed, and again on its result *)

ClosurePool == <<"A", "B", "C", "D">>

\* The longest FD list handed to computeClosure.
MaxClosureFDs == 2

\* The FDs a caller of the static functions may pass: the detector's
\* candidates and, before them, the FDs with no determinant ([] -> rhs).
closureCandidates(attrs) ==
  [i \in 1..Len(attrs) |-> [lhs |-> <<>>, rhs |-> attrs[i]]] \o detectCandidates(attrs)

InitClosure ==
  /\ pc = "input"
  /\ data = <<>>
  /\ threshold = [num |-> 98, den |-> 100]
  /\ \E n \in 0..Len(ClosurePool) : attributes = SubSeq(ClosurePool, 1, n)
  /\ fds = <<>>
  /\ candidateKeys = <<>>
  /\ finderKeys = <<>>
  /\ closureArgs = <<>>
  /\ closureOut = <<>>
  /\ closureAgain = <<>>
  /\ closurePasses = 0
  /\ reduced = <<>>
  /\ closureReduced = <<>>
  /\ keysReduced = <<>>
  /\ testArgs = NoArgs
  /\ lastTest = NoTest
  /\ outcome = "none"
  /\ nfResult = NoResult
  /\ stage2 = NoStage
  /\ stage3 = NoStage
  /\ complete = <<>>

\* The caller puts one more FD, any candidate in any order, in the list.
ClosurePushFD ==
  /\ pc = "input"
  /\ Len(fds) < MaxClosureFDs
  /\ \E i \in 1..Len(closureCandidates(attributes)) :
       fds' = Append(fds, closureCandidates(attributes)[i])
  /\ UNCHANGED <<pc, data, attributes, threshold, outcome, finderVars, closureVars,
                 testVars, checkerVars>>

\* FunctionalDependency.computeClosure(seed, attributes, fds), then the same
\* call on the array it returned.
CallClosure ==
  /\ pc = "input"
  /\ \E S \in SUBSET (1..Len(attributes)) :
       LET seed == Restrict(attributes, S)
           out  == computeClosure(seed, attributes, fds)
       IN /\ closureArgs' = seed
          /\ closureOut' = out
          /\ closureAgain' = computeClosure(out, attributes, fds)
          /\ closurePasses' = closurePassCount(seed, attributes, fds)
  /\ pc' = "closed"
  /\ outcome' = "returned"
  /\ UNCHANGED <<data, attributes, threshold, fds, reduced, closureReduced, keysReduced,
                 finderVars, testVars, checkerVars>>

\* FunctionalDependency.removeRedundant(fds)
CallRemoveRedundant ==
  /\ pc = "input"
  /\ reduced' = removeRedundant(fds)
  /\ pc' = "reduced"
  /\ outcome' = "returned"
  /\ UNCHANGED <<data, attributes, threshold, fds, closureArgs, closureOut,
                 closureAgain, closurePasses, closureReduced, keysReduced, finderVars,
                 testVars, checkerVars>>

\* After removeRedundant(fds): computeClosure of one seed under fds and under
\* the reduced list, and a key finder run on each of the two lists.
CompareReduced ==
  /\ pc = "reduced"
  /\ \E S \in SUBSET (1..Len(attributes)) :
       LET seed == Restrict(attributes, S)
       IN /\ closureArgs' = seed
          /\ closureOut' = computeClosure(seed, attributes, fds)
          /\ closureReduced' = computeClosure(seed, attributes, reduced)
  /\ candidateKeys' = findCandidateKeys(attributes, fds)
  /\ finderKeys' = IF keyPath(attributes, reduced) = "shortcut" THEN <<>>
                   ELSE findCandidateKeys(attributes, reduced)
  /\ keysReduced' = findCandidateKeys(attributes, reduced)
  /\ pc' = "compared"
  /\ outcome' = "returned"
  /\ UNCHANGED <<data, attributes, threshold, fds, reduced, closureAgain, closurePasses,
                 testVars, checkerVars>>

NextClosure == ClosurePushFD \/ CallClosure \/ CallRemoveRedundant \/ CompareReduced

SpecClosure == InitClosure /\ [][NextClosure]_vars

\* C2: computeClosure(X) contains X, and computeClosure applied to its own
\* result returns that result.
C2_ClosureExtensiveIdempotent ==
  pc = "closed" =>
    /\ SeqToSet(closureArgs) \subseteq SeqToSet(closureOut)
    /\ closureAgain = closureOut

\* A closure that needed a second adding pass: two attributes were added, the
\* second by an FD listed before the one that enabled it.
C2_Witness ==
  /\ pc = "closed"
  /\ Len(closureOut) >= Len(closureArgs) + 2
  /\ ClosureLoop(closureArgs, fds, 0).passes >= 3

\* fdList[j] has the rhs of fdList[i] and a determinant that is a proper subset
\* of the determinant of fdList[i].
coveredBy(fdList, i, j) ==
  /\ fdList[j].rhs = fdList[i].rhs
  /\ SeqToSet(fdList[j].lhs) \subseteq SeqToSet(fdList[i].lhs)
  /\ SeqToSet(fdList[j].lhs) # SeqToSet(fdList[i].lhs)

\* C17: removeRedundant returns, in order, exactly the input FDs that no other
\* input FD covers with the same rhs and a strictly smaller determinant; so no
\* FD of its result (which is what detectAll returns) covers another.
C17_RedundantExactlyRemoved ==
  pc = "reduced" =>
    /\ reduced = Restrict(fds, {i \in 1..Len(fds) :
                                 ~\E j \in 1..Len(fds) : j # i /\ coveredBy(fds, i, j)})
    /\ \A i, j \in 1..Len(reduced) : ~coveredBy(reduced, i, j)

\* removeRedundant dropped an FD and kept the one that covers it.
C17_Witness ==
  /\ pc = "reduced"
  /\ Len(fds) = 2
  /\ Len(reduced) = 1
  /\ \E i, j \in 1..2 : coveredBy(fds, i, j) /\ reduced = <<fds[j]>>

\* C24: computeClosure of a seed under removeRedundant(L) has the members of
\* computeClosure of that seed under L, and findCandidateKeys returns the same
\* keys on the two lists.
C24_ReducedListDerivesTheSame ==
  pc = "compared" =>
    /\ SeqToSet(closureReduced) = SeqToSet(closureOut)
    /\ keysReduced = candidateKeys

\* removeRedundant dropped an FD, and the closure of the seed used the FD
\* that covers it.
C24_Witness ==
  /\ pc = "compared"
  /\ Len(reduced) < Len(fds)
  /\ Len(closureOut) > Len(closureArgs)

\* C20 as stated: computeClosure makes at most |allAttributes| passes.
C20_PassesAtMostAttributes ==
  pc = "closed" => closurePasses <= Len(attributes)

\* C20: computeClosure returns after at most |allAttributes| - |seed| + 1
\* passes; that is at most |allAttributes| when the seed is not empty, and
\* also for an empty seed when there is an attribute and no FD has an empty
\* determinant.
C20_PassesBounded ==
  pc = "closed" =>
    /\ closurePasses + Len(closureArgs) <= Len(attributes) + 1
    /\ (\/ closureArgs # <<>>
        \/ attributes # <<>> /\ \A i \in 1..Len(fds) : fds[i].lhs # <<>>)
         => closurePasses <= Len(attributes)

\* A closure that took as many passes as there are attributes: each adding
\* pass added one attribute to a one-attribute seed.
C20_Witness ==
  /\ pc = "closed"
  /\ Len(closureArgs) = 1
  /\ Len(attributes) = 3
  /\ closurePasses = 3

----------------------------------------------------------------------------
(* Spec: the pipeline on a dataset: detector, key finder, checker, decomposer *)

Columns == <<"Student", "Course", "Room">>

StudentRows ==
  [Student : {Str("A"), Str("B")}, Course : {Str("C1"), Str("C2")},
   Room : {Str("R1"), Str("R2")}]

\* The most rows in a dataset.
MaxRows == 3

Datasets == UNION {[1..n -> StudentRows] : n \in 0..MaxRows}

\* 0.98 (the default), 1.0 and 0.5
Thresholds == {[num |-> 98, den |-> 100], [num |-> 1, den |-> 1], [num |-> 1, den |-> 2]}

\* The lhs arrays a caller hands to testFD: one or two columns.
TestLhs == {<<Columns[i]>> : i \in 1..Len(Columns)}
           \cup {<<Columns[i], Columns[j]>> : i \in 1..Len(Columns),
                                               j \in 1..Len(Columns)}

\* new FunctionalDependency(data, threshold)
Init ==
  /\ pc = "detector"
  /\ data \in Datasets
  /\ attributes = IF data = <<>> THEN <<>> ELSE ObjectKeys(data[1])
  /\ threshold \in Thresholds
  /\ fds = <<>>
  /\ candidateKeys = <<>>
  /\ finderKeys = <<>>
  /\ closureArgs = <<>>
  /\ closureOut = <<>>
  /\ closureAgain = <<>>
  /\ closurePasses = 0
  /\ reduced = <<>>
  /\ closureReduced = <<>>
  /\ keysReduced = <<>>
  /\ testArgs = NoArgs
  /\ lastTest = NoTest
  /\ outcome = "none"
  /\ nfResult = NoResult
  /\ stage2 = NoStage
  /\ stage3 = NoStage
  /\ complete = <<>>

\* detector.testFD(lhs, rhs)
TestFD ==
  /\ pc = "detector"
  /\ \E lhs \in TestLhs, rhs \in SeqToSet(Columns) :
       /\ testArgs' = [lhs |-> lhs, rhs |-> rhs]
       /\ lastTest' = testFD(data, lhs, rhs, threshold)
  /\ pc' = "tested"
  /\ outcome' = "returned"
  /\ UNCHANGED <<data, attributes, threshold, fds, finderVars, closureVars, checkerVars>>

\* detector.detectAll()
DetectAll ==
  /\ pc = "detector"
  /\ fds' = detectAll(data, attributes, threshold)
  /\ pc' = "detected"
  /\ outcome' = "returned"
  /\ UNCHANGED <<data, attributes, threshold, finderVars, closureVars, testVars,
                 checkerVars>>

\* new CandidateKeyFinder(attributes, fds).findCandidateKeys() on the detected FDs
FindDetectedKeys ==
  /\ pc = "detected"
  /\ candidateKeys' = findCandidateKeys(attributes, fds)
  /\ finderKeys' = IF keyPath(attributes, fds) = "shortcut" THEN <<>>
                   ELSE findCandidateKeys(attributes, fds)
  /\ pc' = "keys"
  /\ outcome' = "returned"
  /\ UNCHANGED <<data, attributes, threshold, fds, closureVars, testVars, checkerVars>>

\* new NormalFormChecker(schema, fds, candidateKeys).analyzeAllForms(data)
Analyze ==
  /\ pc = "keys"
  /\ nfResult' = analyzeAllForms(data, fds, candidateKeys)
  /\ pc' = "analyzed"
  /\ outcome' = "returned"
  /\ UNCHANGED <<data, attributes, threshold, fds, finderVars, closureVars, testVars,
                 stage2, stage3, complete>>

\* new SchemaDecomposer(schema, fds, candidateKeys).decomposeTo2NF()
Decompose2NF ==
  /\ pc = "analyzed"
  /\ stage2' = decomposeTo2NF(attributes, fds, candidateKeys)
  /\ fds' = fdsAfter2NF(fds, candidateKeys)
  /\ pc' = "stage2"
  /\ outcome' = "returned"
  /\ UNCHANGED <<data, attributes, threshold, finderVars, closureVars, testVars,
                 nfResult, stage3, complete>>

Next == TestFD \/ DetectAll \/ FindDetectedKeys \/ Analyze \/ Decompose2NF

Spec == Init /\ [][Next]_vars

\* C12: on a dataset with rows, every FD detectAll returns has a confidence c
\* with threshold <= c <= 1; in integers, its violations v = rows - rows * c
\* satisfy 0 <= v <= (1 - threshold) * rows.
C12_ConfidenceAtLeastThreshold ==
  (pc = "detected" /\ data # <<>>) =>
    \A i \in 1..Len(fds) :
      LET c == fds[i].confidence
      IN /\ ~c.nan
         /\ c.den = Len(data)
         /\ c.num <= c.den
         /\ c.num * threshold.den >= threshold.num * c.den
         /\ (c.den - c.num) * threshold.den
              <= (threshold.den - threshold.num) * Len(data)

\* detectAll returned an FD that some row violates: its confidence is below 1.
C12_Witness ==
  /\ pc = "detected"
  /\ \E i \in 1..Len(fds) : /\ fds[i].confidence.num < fds[i].confidence.den
                             /\ fds[i].confidence.num > 0

\* Two rows agree on every attribute of lhs and differ on rhs.
inconsistentPair(rows, lhs, rhs) ==
  \E i, j \in 1..Len(rows) :
    /\ \A k \in 1..Len(lhs) : rows[i][lhs[k]] = rows[j][lhs[k]]
    /\ rows[i][rhs] # rows[j][rhs]

----------------------------------------------------------------------------
(* SpecNF: checker and decomposer on a schema, an FD list and a key list *)

NFAttrs == <<"A", "B", "C">>

\* The longest FD list and the longest key list handed to checker and decomposer.
MaxNFFDs == 2
MaxNFKeys == 2

\* The FDs over attrs with one or two lhs attributes, a pair in both orders.
RECURSIVE withReversed(_)
withReversed(cands) ==
  IF cands = <<>> THEN <<>>
  ELSE LET c == Head(cands)
       IN (IF Len(c.lhs) = 2
           THEN <<c, [lhs |-> <<c.lhs[2], c.lhs[1]>>, rhs |-> c.rhs]>>
           ELSE <<c>>)
          \o withReversed(Tail(cands))

nfCandidates(attrs) == withReversed(detectCandidates(attrs))

\* The keys a key list may hold: the non-empty sub-lists of attrs.
RECURSIVE keyChoices(_)
keyChoices(attrs) ==
  IF attrs = <<>> THEN <<>>
  ELSE LET rest == keyChoices(Tail(attrs))
       IN << <<Head(attrs)>> >> \o [i \in 1..Len(rest) |-> <<Head(attrs)>> \o rest[i]]
          \o rest

\* The elements of choices after the last element of list.
laterChoices(choices, list) ==
  LET last == IF list = <<>> THEN 0 ELSE candidateIndex(choices, list[Len(list)])
  IN {choices[i] : i \in last + 1..Len(choices)}

AtomicRow == [A |-> Str("a1"), B |-> Str("b1"), C |-> Str("c1")]
ArrayRow  == [A |-> Str("a2"), B |-> [type |-> "array", text |-> "x,y"], C |-> Str("c2")]
NFSamples == {<<>>, <<AtomicRow>>, <<AtomicRow, ArrayRow>>}

InitNF ==
  /\ pc = "nfinput"
  /\ data \in NFSamples
  /\ attributes = NFAttrs
  /\ threshold = [num |-> 98, den |-> 100]
  /\ fds = <<>>
  /\ candidateKeys = <<>>
  /\ finderKeys = <<>>
  /\ closureArgs = <<>>
  /\ closureOut = <<>>
  /\ closureAgain = <<>>
  /\ closurePasses = 0
  /\ reduced = <<>>
  /\ closureReduced = <<>>
  /\ keysReduced = <<>>
  /\ testArgs = NoArgs
  /\ lastTest = NoTest
  /\ outcome = "none"
  /\ nfResult = NoResult
  /\ stage2 = NoStage
  /\ stage3 = NoStage
  /\ complete = <<>>

\* The caller puts one more FD in the list it will hand over.
NFPushFD ==
  /\ pc = "nfinput"
  /\ Len(fds) < MaxNFFDs
  /\ \E fd \in laterChoices(nfCandidates(attributes), fds) : fds' = Append(fds, fd)
  /\ UNCHANGED <<pc, data, attributes, threshold, outcome, finderVars, closureVars,
                 testVars, checkerVars>>

\* The caller puts one more key in the list it will hand over.
NFPushKey ==
  /\ pc = "nfinput"
  /\ Len(candidateKeys) < MaxNFKeys
  /\ \E key \in laterChoices(keyChoices(attributes), candidateKeys) :
       candidateKeys' = Append(candidateKeys, key)
  /\ UNCHANGED <<pc, data, attributes, threshold, fds, outcome, finderKeys, closureVars,
                 testVars, checkerVars>>

\* The caller constructs checker and decomposer on a non-empty key list.
NFConstruct ==
  /\ pc = "nfinput"
  /\ candidateKeys # <<>>
  /\ pc' = "keys"
  /\ UNCHANGED <<data, attributes, threshold, fds, outcome, finderVars, closureVars,
                 testVars, checkerVars>>

NextNF == NFPushFD \/ NFPushKey \/ NFConstruct \/ Analyze \/ Decompose2NF

SpecNF == InitNF /\ [][NextNF]_vars

\* C13: the checker's findPrimeAttributes and the decomposer's
\* getPrimeAttributes return the same set on the same candidate keys: the
\* union of the keys.
C13_PrimeAttributesAgree ==
  pc \in {"keys", "analyzed", "stage2"} =>
    /\ SeqToSet(findPrimeAttributes(candidateKeys))
         = SeqToSet(getPrimeAttributes(candidateKeys))
    /\ SeqToSet(getPrimeAttributes(candidateKeys))
         = UNION {SeqToSet(candidateKeys[k]) : k \in 1..Len(candidateKeys)}

\* Checker and decomposer were built on two keys that share an attribute and
\* each hold one the other lacks.
C13_Witness ==
  /\ pc = "stage2"
  /\ Len(candidateKeys) = 2
  /\ SeqToSet(candidateKeys[1]) \cap SeqToSet(candidateKeys[2]) # {}
  /\ SeqToSet(candidateKeys[1]) \ SeqToSet(candidateKeys[2]) # {}
  /\ SeqToSet(candidateKeys[2]) \ SeqToSet(candidateKeys[1]) # {}

\* C19: analyzeAllForms evaluates 2NF only when 1NF is satisfied and 3NF only
\* when 2NF is satisfied: the result of a failed level carries no check result
\* for the levels above it.
C19_HigherFormsNotEvaluated ==
  pc = "analyzed" =>
    /\ ~nfResult.nf1.satisfied =>
         "nf2" \notin DOMAIN nfResult /\ "nf3" \notin DOMAIN nfResult
    /\ ~nfResult.nf2.satisfied => "nf3" \notin DOMAIN nfResult

----------------------------------------------------------------------------
(* SpecDecompose: the decomposer's three stages on a four-attribute schema,
   one or two candidate keys and an FD list whose pair determinants come in
   either order *)

DecompAttrs == <<"A", "B", "C", "D">>

\* The longest FD list handed to the decomposer.
MaxDecompFDs == 2

DecompSample ==
  << [A |-> Str("a1"), B |-> Str("b1"), C |-> Str("c1"), D |-> Str("d1")] >>

\* The key lists handed to the decomposer: every list of one key, and the
\* lists of two keys that follow each other in keyChoices.
DecompKeyLists ==
  LET choices == keyChoices(DecompAttrs)
  IN {<<choices[i]>> : i \in 1..Len(choices)}
     \cup {<<choices[i], choices[i + 1]>> : i \in 1..Len(choices) - 1}

InitDecompose ==
  /\ pc = "nfinput"
  /\ data = DecompSample
  /\ attributes = DecompAttrs
  /\ threshold = [num |-> 98, den |-> 100]
  /\ fds = <<>>
  /\ candidateKeys \in DecompKeyLists
  /\ finderKeys = <<>>
  /\ closureArgs = <<>>
  /\ closureOut = <<>>
  /\ closureAgain = <<>>
  /\ closurePasses = 0
  /\ reduced = <<>>
  /\ closureReduced = <<>>
  /\ keysReduced = <<>>
  /\ testArgs = NoArgs
  /\ lastTest = NoTest
  /\ outcome = "none"
  /\ nfResult = NoResult
  /\ stage2 = NoStage
  /\ stage3 = NoStage
  /\ complete = <<>>

\* The caller puts one more FD in the list it will hand over.
DecompPushFD ==
  /\ pc = "nfinput"
  /\ Len(fds) < MaxDecompFDs
  /\ \E fd \in laterChoices(nfCandidates(attributes), fds) : fds' = Append(fds, fd)
  /\ UNCHANGED <<pc, data, attributes, threshold, outcome, finderVars, closureVars,
                 testVars, checkerVars>>

\* decomposer.decomposeTo3NF(stage2.tables), on the decomposer that ran decomposeTo2NF
Decompose3NF ==
  /\ pc = "stage2"
  /\ stage3' = decomposeTo3NF(stage2.tables, fds, candidateKeys)
  /\ fds' = fdsAfter3NF(stage2.tables, fds, candidateKeys)
  /\ pc' = "stage3"
  /\ outcome' = "returned"
  /\ UNCHANGED <<data, attributes, threshold, finderVars, closureVars, testVars,
                 nfResult, stage2, complete>>

\* new SchemaDecomposer(schema, fds, candidateKeys).normalizeComplete()
NormalizeComplete ==
  /\ pc = "analyzed"
  /\ complete' = normalizeComplete(attributes, fds, candidateKeys)
  /\ fds' = fdsAfterComplete(attributes, fds, candidateKeys)
  /\ pc' = "normalized"
  /\ outcome' = "returned"
  /\ UNCHANGED <<data, attributes, threshold, finderVars, closureVars, testVars,
                 nfResult, stage2, stage3>>

NextDecompose ==
  \/ DecompPushFD
  \/ NFConstruct
  \/ Analyze
  \/ Decompose2NF
  \/ Decompose3NF
  \/ NormalizeComplete

SpecDecompose == InitDecompose /\ [][NextDecompose]_vars

\* C16: decomposeTo2NF, decomposeTo3NF and normalizeComplete leave the FD list
\* and the candidate-key list they were handed as they were, the order of the
\* attributes in every lhs included.
C16_DecomposerLeavesInputs ==
  [][pc' \in {"stage2", "stage3", "normalized"}
       => fds' = fds /\ candidateKeys' = candidateKeys]_vars

\* C21: on the same candidate keys the decomposer's isPartialDependency and the
\* checker's return the same value for every FD, true exactly when the rhs is
\* in no key and the lhs is a proper subset of some key; so check2NF is
\* satisfied exactly when decomposeTo2NF returns the main table alone.
C21_PartialDependencyAgrees ==
  pc = "stage2" =>
    /\ \A fd \in SeqToSet(nfCandidates(DecompAttrs)) :
         LET prime  == UNION {SeqToSet(candidateKeys[k]) : k \in 1..Len(candidateKeys)}
             proper == \E k \in 1..Len(candidateKeys) :
                          /\ SeqToSet(fd.lhs) \subseteq SeqToSet(candidateKeys[k])
                          /\ SeqToSet(fd.lhs) # SeqToSet(candidateKeys[k])
         IN /\ decomposerIsPartialDependency(fd, getPrimeAttributes(candidateKeys),
                                             candidateKeys)
               = checkerIsPartialDependency(fd, findPrimeAttributes(candidateKeys),
                                            candidateKeys)
            /\ checkerIsPartialDependency(fd, findPrimeAttributes(candidateKeys),
                                          candidateKeys)
               = (fd.rhs \notin prime /\ proper)
    /\ nfResult.nf2.satisfied <=> Len(stage2.tables) = 1

\* On two candidate keys check2NF reported a violation and decomposeTo2NF
\* spawned a table.
C21_Witness ==
  /\ pc = "stage2"
  /\ Len(candidateKeys) = 2
  /\ ~nfResult.nf2.satisfied
  /\ Len(stage2.tables) > 1

\* C22: in every table decomposeTo3NF returns, the columns of each foreign-key
\* descriptor are attributes of that table, and the primary key is a subset of
\* the table's attributes.
C22_ForeignKeysInTable ==
  pc = "stage3" =>
    \A t \in 1..Len(stage3.tables) :
      LET table == stage3.tables[t]
      IN /\ \A f \in 1..Len(table.foreignKeys) :
              SeqToSet(table.foreignKeys[f].columns) \subseteq SeqToSet(table.attributes)
         /\ SeqToSet(table.primaryKey) \subseteq SeqToSet(table.attributes)

\* C25: when check3NF reports satisfied, decomposeTo3NF on the tables of
\* decomposeTo2NF spawns no detail table and attaches no foreign key: it
\* returns the stage-2 tables, each with the attribute set it had.
C25_Satisfied3NFLeavesTables ==
  (pc = "stage3" /\ nfResult.nf3.satisfied) =>
    /\ Len(stage3.tables) = Len(stage2.tables)
    /\ stage3.transformations = <<>>
    /\ \A t \in 1..Len(stage3.tables) :
         /\ stage3.tables[t].name = stage2.tables[t].name
         /\ stage3.tables[t].primaryKey = stage2.tables[t].primaryKey
         /\ stage3.tables[t].foreignKeys = <<>>
         /\ SeqToSet(stage3.tables[t].attributes) = SeqToSet(stage2.tables[t].attributes)

\* check3NF was satisfied on two FDs, one of them a partial dependency that
\* stage 2 moved to a table of its own, and stage 3 ran on the two tables.
C25_Witness ==
  /\ pc = "stage3"
  /\ nfResult.nf3.satisfied
  /\ Len(fds) = 2
  /\ Len(stage2.tables) = 2
  /\ Len(stage3.tables) = 2

----------------------------------------------------------------------------
(* The worked example: three enrolment rows, threshold 0.98 *)

ExampleRows ==
  << [Student |-> Str("A"), Course |-> Str("C1"), Room |-> Str("R1")],
     [Student |-> Str("A"), Course |-> Str("C2"), Room |-> Str("R1")],
     [Student |-> Str("B"), Course |-> Str("C1"), Room |-> Str("R2")] >>

OnExample == data = ExampleRows /\ threshold = [num |-> 98, den |-> 100]

\* fdList holds an FD with the attributes of lhs as its determinant and this rhs
hasFD(fdList, lhs, rhs) ==
  \E i \in 1..Len(fdList) : SeqToSet(fdList[i].lhs) = lhs /\ fdList[i].rhs = rhs

\* C3 (as stated): on the example, the pipeline reports the candidate key
\* {Student, Course}, and check2NF flags Room as partially dependent on Student
\* and reports 2NF as not satisfied.
C3_ExampleViolates2NF ==
  (OnExample /\ pc = "analyzed") =>
    /\ \E k \in 1..Len(candidateKeys) : SeqToSet(candidateKeys[k]) = {"Student", "Course"}
    /\ hasFD(nfResult.nf2.violations, {"Student"}, "Room")
    /\ ~nfResult.nf2.satisfied

\* C3 (amended): on the example, detectAll reports Room -> Student and
\* Student -> Room, findCandidateKeys reports the two keys [Course, Student] and
\* [Course, Room], so Room is prime, check2NF flags nothing and reports 2NF as
\* satisfied.
C3_ExampleSatisfies2NF ==
  (OnExample /\ pc = "analyzed") =>
    /\ candidateKeys = << <<"Course", "Student">>, <<"Course", "Room">> >>
    /\ hasFD(fds, {"Student"}, "Room")
    /\ Includes(findPrimeAttributes(candidateKeys), "Room")
    /\ nfResult.nf2.violations = <<>>
    /\ nfResult.nf2.satisfied

\* The example has been analysed.
C3_Witness == OnExample /\ pc = "analyzed" /\ Len(fds) = 2

\* C4: on the example, testFD([Student], Room) holds with confidence 1,
\* testFD([Student], Course) does not hold, and detectAll's list holds
\* Student -> Room and not Student -> Course.
C4_ExampleStudentRoom ==
  OnExample =>
    /\ (pc = "tested" /\ testArgs = [lhs |-> <<"Student">>, rhs |-> "Room"]) =>
         /\ lastTest.holds
         /\ ~lastTest.confidence.nan
         /\ lastTest.confidence.num = lastTest.confidence.den
    /\ (pc = "tested" /\ testArgs = [lhs |-> <<"Student">>, rhs |-> "Course"]) =>
         ~lastTest.holds
    /\ pc = "detected" =>
         /\ hasFD(fds, {"Student"}, "Room")
         /\ ~hasFD(fds, {"Student"}, "Course")

\* testFD([Student], Room) has returned on the example.
C4_Witness ==
  /\ OnExample
  /\ pc = "tested"
  /\ testArgs = [lhs |-> <<"Student">>, rhs |-> "Room"]
  /\ lastTest.violations = 0

\* C9: on a dataset with no rows, testFD and detectAll end in an
\* EmptyDatasetError, and no call returns a NaN confidence.
C9_EmptyDatasetRejected ==
  (data = <<>> /\ pc \in {"tested", "detected"}) =>
    /\ outcome = "EmptyDatasetError"
    /\ ~lastTest.confidence.nan

----------------------------------------------------------------------------
(* Claims on checker and decomposer *)

\* C5: in every result of analyzeAllForms the satisfied flags form a ladder:
\* 3NF satisfied implies 2NF satisfied, which implies 1NF satisfied.
C5_SatisfiedLadder ==
  pc = "analyzed" =>
    /\ nfResult.nf3.satisfied => nfResult.nf2.satisfied
    /\ nfResult.nf2.satisfied => nfResult.nf1.satisfied

\* C6: currentForm is the highest level whose check and all lower checks are
\* satisfied: 3NF exactly with all three, 2NF exactly with 1NF and 2NF and not
\* 3NF, 1NF exactly with 1NF and not 2NF, UNF exactly without 1NF.
C6_CurrentFormIsHighestReached ==
  pc = "analyzed" =>
    LET s1 == nfResult.nf1.satisfied
        s2 == nfResult.nf2.satisfied
        s3 == nfResult.nf3.satisfied
    IN /\ nfResult.currentForm = "3NF" <=> (s1 /\ s2 /\ s3)
       /\ nfResult.currentForm = "2NF" <=> (s1 /\ s2 /\ ~s3)
       /\ nfResult.currentForm = "1NF" <=> (s1 /\ ~s2)
       /\ nfResult.currentForm = "UNF" <=> ~s1

\* The tag is 1NF although the 3NF check, taken alone, is satisfied.
C6_Witness ==
  /\ pc = "analyzed"
  /\ nfResult.currentForm = "1NF"
  /\ nfResult.nf3.satisfied

\* The tables decomposeTo2NF spawned: all but the last, which is the main table.
spawnedTables == SubSeq(stage2.tables, 1, Len(stage2.tables) - 1)

\* C7: two distinct spawned tables share no attribute outside their lhs key
\* columns: no moved rhs attribute is in two spawned tables.
C7_SpawnedTablesDisjoint ==
  pc = "stage2" =>
    \A i, j \in 1..Len(spawnedTables) :
      i # j =>
        SeqToSet(spawnedTables[i].attributes) \cap SeqToSet(spawnedTables[j].attributes)
          \subseteq SeqToSet(spawnedTables[i].primaryKey)
                    \cup SeqToSet(spawnedTables[j].primaryKey)

\* C8: the attributes of all tables decomposeTo2NF returns, taken together, are
\* the original attributes.
C8_Stage2CoversAttributes ==
  pc = "stage2" =>
    UNION {SeqToSet(stage2.tables[t].attributes) : t \in 1..Len(stage2.tables)}
      = SeqToSet(attributes)

\* Two tables were spawned and the main table lost an attribute.
C8_Witness ==
  /\ pc = "stage2"
  /\ Len(stage2.tables) = 3
  /\ Len(stage2.tables[3].attributes) < Len(attributes)

----------------------------------------------------------------------------
(* SpecInput: the detector constructed on values that hold the separator of
   the grouping key, and on thresholds inside and outside (0, 1] *)

InputColumns == <<"A", "B", "C">>

InputRows ==
  [A : {Str("a"), Str("a|b")}, B : {Str("c"), Str("b|c")}, C : {Str("x"), Str("y")}]

\* The most rows in a dataset of SpecInput.
MaxInputRows == 2

InputDatasets == UNION {[1..n -> InputRows] : n \in 0..MaxInputRows}

\* 0.98 (the default), 0 and 1.5
InputThresholds ==
  {[num |-> 98, den |-> 100], [num |-> 0, den |-> 1], [num |-> 3, den |-> 2]}

\* The lhs arrays handed to testFD: one column, or two different columns.
InputLhs == {<<InputColumns[i]>> : i \in 1..Len(InputColumns)}
            \cup {<<p[1], p[2]>> :
                    p \in {q \in SeqToSet(InputColumns) \X SeqToSet(InputColumns) :
                             q[1] # q[2]}}

\* new FunctionalDependency(data, threshold)
InitInput ==
  /\ pc = "detector"
  /\ data \in InputDatasets
  /\ attributes = IF data = <<>> THEN <<>> ELSE ObjectKeys(data[1])
  /\ threshold \in InputThresholds
  /\ fds = <<>>
  /\ candidateKeys = <<>>
  /\ finderKeys = <<>>
  /\ closureArgs = <<>>
  /\ closureOut = <<>>
  /\ closureAgain = <<>>
  /\ closurePasses = 0
  /\ reduced = <<>>
  /\ closureReduced = <<>>
  /\ keysReduced = <<>>
  /\ testArgs = NoArgs
  /\ lastTest = NoTest
  /\ outcome = "none"
  /\ nfResult = NoResult
  /\ stage2 = NoStage
  /\ stage3 = NoStage
  /\ complete = <<>>

\* detector.testFD(lhs, rhs)
TestInputFD ==
  /\ pc = "detector"
  /\ \E lhs \in InputLhs, rhs \in SeqToSet(InputColumns) :
       /\ testArgs' = [lhs |-> lhs, rhs |-> rhs]
       /\ lastTest' = testFD(data, lhs, rhs, threshold)
  /\ pc' = "tested"
  /\ outcome' = "returned"
  /\ UNCHANGED <<data, attributes, threshold, fds, finderVars, closureVars, checkerVars>>

NextInput == TestInputFD \/ DetectAll

SpecInput == InitInput /\ [][NextInput]_vars

\* C11: testFD puts two rows in one group exactly when their lhs values are
\* equal attribute by attribute, so the violations and the confidence it
\* returns are those of grouping the rows by the tuple of their lhs values.
C11_GroupsByValueTuple ==
  pc = "tested" =>
    LET lhs == testArgs.lhs
        rhs == testArgs.rhs
        tuple(row) == [i \in 1..Len(lhs) |-> row[lhs[i]]]
        rowSet == {data[i] : i \in 1..Len(data)}
        tupleViolations ==
          Cardinality({<<tuple(row), row[rhs]>> : row \in rowSet})
            - Cardinality({tuple(row) : row \in rowSet})
    IN /\ \A r1, r2 \in rowSet : lhsKey(r1, lhs) = lhsKey(r2, lhs) <=> tuple(r1) = tuple(r2)
       /\ lastTest.violations = tupleViolations
       /\ lastTest.confidence = confidenceOf(tupleViolations, Len(data))

\* C15: a detector whose threshold is outside (0, 1] ends in
\* InvalidThresholdError; it returns neither a test result nor an FD list.
C15_InvalidThresholdRejected ==
  LET inRange == 0 < threshold.num /\ threshold.num <= threshold.den
  IN (pc \in {"tested", "detected"} /\ ~inRange) => outcome = "InvalidThresholdError"

====
